---------------------------- MODULE Spec2Model ----------------------------
(***************************************************************************)
(* Model of pytorch_unet/trainer/interpret.py: the interpretation script   *)
(* of a trained U-Net.  The module's callable functions are modelled as    *)
(* one state machine whose program counter pc walks through the statements *)
(* of main, plot_sensitivity, sensitivity_analysis and block_filters;      *)
(* get_values, get_block_list and do_pooling are operators.                *)
(*                                                                         *)
(* Names of modules are sequences of tokens: 'down_path.1.block' is        *)
(* <<"down_path", ".", "1", ".", "block">>, the root module's name '' is   *)
(* <<>>.  A module object is identified with its qualified name.           *)
(* Tensors are symbolic terms (records) that remember how they were built. *)
(***************************************************************************)
EXTENDS Integers, Sequences, FiniteSets, TLC

\* ------------------------------------------------------------------ bounds
\* largest value of --depth tried (the smallest is MinDepth)
MaxDepth == 4
\* largest number of down_path / up_path blocks of a loaded model
MaxBlocks == 4
\* longest child list handed to get_block_list when it is called on its own
MaxChildren == 5
\* largest number of output positions (H*W of the output) of a forward pass
MaxPos == 2
\* input gradients lie in -MaxGrad..MaxGrad
MaxGrad == 2
\* largest spatial size of a tensor handed to do_pooling when called on its own
MaxSize == 9

MinDepth == 0 - 1

\* ------------------------------------------------------------------ names
DigitChar == <<"0", "1", "2", "3", "4", "5", "6", "7", "8", "9">>

\* str(y) for y >= 0: the decimal digits of y, as '{}'.format(y) writes them
RECURSIVE Digits(_)
Digits(y) == IF y < 10 THEN <<DigitChar[y + 1]>>
             ELSE Digits(y \div 10) \o <<DigitChar[(y % 10) + 1]>>

\* 'down_path.{}'.format(y), 'up_path.{}'.format(y)
Format(key, y) == <<key, ".">> \o Digits(y)

\* Python's  a in b  for two strings: a is a contiguous part of b
IsSubstring(a, b) ==
    \E i \in 0..(Len(b) - Len(a)) : \A k \in 1..Len(a) : b[i + k] = a[k]

\* the mutant of KeyIn: a substring test on the name
KeyInSubstring(key_to_find, z) == IsSubstring(key_to_find, z[1])

\* key_to_find in z, for z a tuple (name, module): tuple membership compares
\* key_to_find with each element; a module object never equals a str, so the
\* test is equality with the name
KeyIn(key_to_find, z) == z[1] = key_to_find

\* get_values(iterables, key_to_find): list(filter(lambda z: key_to_find in z, iterables))
get_values(iterables, key_to_find) ==
    SelectSeq(iterables, LAMBDA z : KeyIn(key_to_find, z))

\* range(n) as the 1-based positions 1..n (empty when n <= 0)
Range(n) == 1..n

\* the mutant of get_block_list: the blocks found are returned and a missing
\* block is passed over instead of raising
get_block_list_lenient(child_list, depth) ==
    LET have(key, n) == SelectSeq(child_list,
                            LAMBDA z : \E y \in Range(n) : z[1] = Format(key, y - 1))
        mods(lst) == [ x \in 1..Len(lst) |-> lst[x][2] ]
    IN [raised |-> FALSE,
        down |-> mods(have("down_path", depth)),
        up |-> mods(have("up_path", depth - 1))]

\* get_block_list(child_list, args): down_seq[x][0][1] raises IndexError when
\* no child is named 'down_path.x' (up_seq likewise); otherwise the lists of
\* the first matching modules
get_block_list(child_list, depth) ==
    LET down_seq == [ y \in Range(depth) |-> get_values(child_list, Format("down_path", y - 1)) ]
        up_seq == [ y \in Range(depth - 1) |-> get_values(child_list, Format("up_path", y - 1)) ]
    IN IF (\E x \in Range(depth) : down_seq[x] = <<>>)
          \/ (\E x \in Range(depth - 1) : up_seq[x] = <<>>)
       THEN [raised |-> TRUE, down |-> <<>>, up |-> <<>>]
       ELSE [raised |-> FALSE,
             down |-> [ x \in Range(depth) |-> down_seq[x][1][2] ],
             up |-> [ x \in Range(depth - 1) |-> up_seq[x][1][2] ]]


\* ---------------------------------------------------------------- tensors
\* a tensor loaded from outside, of spatial size n
Input(n) == [op |-> "input", of |-> <<>>, args |-> <<>>, n |-> n]

\* the output of calling module mod on the tensors args
Apply(mod, args) == [op |-> "block", of |-> mod, args |-> args, n |-> 0]

\* F.avg_pool2d(d, 2)
avg_pool2d(d) == [op |-> "avg_pool2d", of |-> <<>>, args |-> <<d>>, n |-> 0]

\* what a call that exhausts Python's stack yields
RecursionError == [op |-> "RecursionError", of |-> <<>>, args |-> <<>>, n |-> 0]

\* the mutant of do_pooling: the base case is reached one level late
RECURSIVE do_pooling_late(_, _)
do_pooling_late(dep, d) ==
    IF dep = 1 THEN avg_pool2d(d)
    ELSE IF dep < 1 THEN RecursionError
    ELSE avg_pool2d(do_pooling_late(dep - 1, d))

\* do_pooling(dep, d); below the base case dep - 1 == 1 the recursion never
\* ends and Python raises RecursionError
RECURSIVE do_pooling(_, _)
do_pooling(dep, d) ==
    IF (dep - 1) = 1 THEN avg_pool2d(d)
    ELSE IF (dep - 1) < 1 THEN RecursionError
    ELSE LET inner == do_pooling(dep - 1, d)
         IN IF inner = RecursionError THEN RecursionError ELSE avg_pool2d(inner)

\* the spatial size of a tensor built from an input by 2x average pooling
\* (avg_pool2d with kernel 2: floor(size / 2))
RECURSIVE Size(_)
Size(t) == IF t.op = "avg_pool2d" THEN Size(t.args[1]) \div 2 ELSE t.n

\* ------------------------------------------------------ sensitivity values
\* the classes (channels) of the model's output
Class == {0, 1}
\* the scores the model gives a class at a position
Score == {0, 1}
\* the pixels of the input image
Pixel == {1, 2}
\* the values of an input gradient
GradValue == (0 - MaxGrad)..MaxGrad
\* the values of postprocess tried: "None" stands for the None object
PostValue == {"abs", "square", "None", "ABS", "sqrt"}

Abs(v) == IF v < 0 THEN 0 - v ELSE v

\* output.max(1)[1]: at every position the index of the first maximal score
ArgMax(output, nPos) ==
    [ p \in 1..nPos |->
        CHOOSE c \in Class :
            /\ \A c2 \in Class : output[c2][p] <= output[c][p]
            /\ \A c2 \in Class : c2 < c => output[c2][p] < output[c][p] ]

\* one_hot_output = torch.zeros(output.size()); one_hot_output[0, index] = 1
\* where index is a class or an array of classes: every channel the index
\* names is set to 1 at every position
OneHot(size, index) ==
    [ c \in Class |-> [ p \in 1..size |-> IF c \in index THEN 1 ELSE 0 ] ]

\* the mutant of PostProcess: 'square' takes the absolute value too
PostProcessAbs(relevance_map, postprocess) ==
    IF postprocess \in {"abs", "square"}
    THEN [raised |-> FALSE, value |-> [ x \in Pixel |-> Abs(relevance_map[x]) ]]
    ELSE IF postprocess = "None"
    THEN [raised |-> FALSE, value |-> relevance_map]
    ELSE [raised |-> TRUE, value |-> <<>>]

\* the if / elif chain on postprocess that ends sensitivity_analysis
PostProcess(relevance_map, postprocess) ==
    IF postprocess = "abs"
    THEN [raised |-> FALSE, value |-> [ x \in Pixel |-> Abs(relevance_map[x]) ]]
    ELSE IF postprocess = "square"
    THEN [raised |-> FALSE, value |-> [ x \in Pixel |-> relevance_map[x] * relevance_map[x] ]]
    ELSE IF postprocess = "None"
    THEN [raised |-> FALSE, value |-> relevance_map]
    ELSE [raised |-> TRUE, value |-> <<>>]


\* ------------------------------------------------------------------ state
VARIABLES
    entry,      \* the function called from outside: "main", "sensitivity_analysis",
                \* "get_block_list" or "do_pooling"
    pc,         \* the statement about to run
    exc,        \* the exception that ended the call, "none" while there is none
    trace,      \* the statements run so far, in order
    argv,       \* the command line: [depth, plot_interpret]
    args,       \* the parsed arguments
    dirExists,  \* whether the interpret_path directory exists
    files,      \* the files written by plt.savefig, in order
    printed,    \* whether "Interpretation complete" was printed
    model,      \* the model object: [loaded, device, training, grads]
    bf,         \* the locals of block_filters
    sa,         \* the arguments and locals of sensitivity_analysis
    call        \* arguments and result of get_block_list / do_pooling called on their own

vars == <<entry, pc, exc, trace, argv, args, dirExists, files, printed, model, bf, sa, call>>

NoArgs == [depth |-> 0, plot_interpret |-> "unparsed"]

NoModel == [loaded |-> FALSE, device |-> "none", training |-> TRUE, grads |-> "none"]

NoBf == [module_list |-> <<>>, down_list |-> <<>>, up_list |-> <<>>, dep_list |-> <<>>,
         pooled |-> <<>>, up_block |-> <<>>, j |-> 0, plots |-> <<>>, pool_calls |-> <<>>]

NoSa == [target_given |-> FALSE, target_class |-> 0, postprocess |-> "abs",
         nPos |-> 0, output |-> <<>>, output_class |-> <<>>, one_hot_output |-> <<>>,
         grad |-> <<>>, relevance_map |-> <<>>, result |-> <<>>, returned |-> FALSE]

NoCall == [child_list |-> <<>>, depth |-> 0, dep |-> 0, d |-> Input(0),
           raised |-> FALSE, down |-> <<>>, up |-> <<>>, out |-> Input(0)]

\* a file name under interpret_path: 'sensitivity.png' or '<name>_block_filter_<n>.png'
SensitivityPng == [kind |-> "sensitivity", name |-> "", n |-> 0]
\* the mutant of BlockFilterPng: the size is left out of the file name
BlockFilterPngNoSize(name, n) == [kind |-> "block_filter", name |-> name, n |-> 0]
BlockFilterPng(name, n) == [kind |-> "block_filter", name |-> name, n |-> n]

\* a statement raises: the exception leaves the call, nothing catches it
Raise(e) == /\ pc' = "raised"
            /\ exc' = e

\* ------------------------------------------------------------------- main
\* args = parse_args(args): argparse exits on a value outside choices
ParseArgs ==
    /\ pc = "parse_args"
    /\ trace' = Append(trace, "parse_args")
    /\ IF argv.plot_interpret \in {"sensitivity", "block_filters"}
       THEN /\ args' = [depth |-> argv.depth, plot_interpret |-> argv.plot_interpret]
            /\ pc' = "makedirs"
            /\ exc' = exc
       ELSE /\ args' = args
            /\ Raise("SystemExit")
    /\ UNCHANGED <<entry, argv, dirExists, files, printed, model, bf, sa, call>>

\* the mutant of MakeDirs: the directory is not created
MakeDirsForgotten ==
    /\ pc = "makedirs"
    /\ trace' = Append(trace, "makedirs")
    /\ pc' = "load_model"
    /\ UNCHANGED <<entry, exc, argv, args, dirExists, files, printed, model, bf, sa, call>>

\* if not os.path.exists(args.interpret_path): os.makedirs(args.interpret_path)
MakeDirs ==
    /\ pc = "makedirs"
    /\ trace' = Append(trace, "makedirs")
    /\ dirExists' = TRUE
    /\ pc' = "load_model"
    /\ UNCHANGED <<entry, exc, argv, args, files, printed, model, bf, sa, call>>

\* model = load_model(args): the loader returns a model, on a device and in a
\* mode of its choosing, or raises (a missing weights file)
LoadModel ==
    /\ pc = "load_model"
    /\ trace' = Append(trace, "load_model")
    /\ \E ok \in BOOLEAN, dev \in {"cuda", "cpu"}, tr \in BOOLEAN :
         IF ok
         THEN /\ model' = [loaded |-> TRUE, device |-> dev, training |-> tr, grads |-> "stale"]
              /\ pc' = "if_sensitivity"
              /\ exc' = exc
         ELSE /\ dev = "cpu" /\ tr
              /\ model' = model
              /\ Raise("FileNotFoundError")
    /\ UNCHANGED <<entry, argv, args, dirExists, files, printed, bf, sa, call>>

\* if args.plot_interpret == 'sensitivity': plot_sensitivity(img_path, model, args)
IfSensitivity ==
    /\ pc = "if_sensitivity"
    /\ IF args.plot_interpret = "sensitivity"
       THEN /\ trace' = Append(trace, "plot_sensitivity")
            /\ pc' = "ps_load_image"
       ELSE /\ trace' = trace
            /\ pc' = "if_block_filters"
    /\ UNCHANGED <<entry, exc, argv, args, dirExists, files, printed, model, bf, sa, call>>

\* if args.plot_interpret == 'block_filters': block_filters(model, img_path, args)
IfBlockFilters ==
    /\ pc = "if_block_filters"
    /\ IF args.plot_interpret = "block_filters"
       THEN /\ trace' = Append(trace, "block_filters")
            /\ pc' = "bf_all_children"
       ELSE /\ trace' = trace
            /\ pc' = "print"
    /\ UNCHANGED <<entry, exc, argv, args, dirExists, files, printed, model, bf, sa, call>>

\* print("Interpretation complete")
PrintComplete ==
    /\ pc = "print"
    /\ trace' = Append(trace, "print")
    /\ printed' = TRUE
    /\ pc' = "done"
    /\ UNCHANGED <<entry, exc, argv, args, dirExists, files, model, bf, sa, call>>

\* plt.savefig(path): writes the file, or raises when the directory is missing
SaveFig(file) ==
    IF dirExists
    THEN /\ files' = Append(files, file)
         /\ exc' = exc
    ELSE /\ files' = files
         /\ exc' = "FileNotFoundError"


\* ------------------------------------------------------- plot_sensitivity
\* img_tensor, img = load_image(img_path, args), then the call
\* sensitivity_analysis(model, img_tensor) with its defaults
\* target_class=None, postprocess='abs'
PS_LoadImage ==
    /\ pc = "ps_load_image"
    /\ trace' = Append(trace, "load_image")
    /\ \E ok \in BOOLEAN :
         IF ok
         THEN /\ sa' = [NoSa EXCEPT !.target_given = FALSE, !.postprocess = "abs"]
              /\ pc' = "sa_cpu"
              /\ exc' = exc
         ELSE /\ sa' = sa
              /\ Raise("FileNotFoundError")
    /\ UNCHANGED <<entry, argv, args, dirExists, files, printed, model, bf, call>>

\* plt.savefig(args.interpret_path + '/sensitivity.png')
PS_SaveFig ==
    /\ pc = "ps_savefig"
    /\ trace' = Append(trace, "savefig")
    /\ SaveFig(SensitivityPng)
    /\ pc' = IF dirExists THEN "if_block_filters" ELSE "raised"
    /\ UNCHANGED <<entry, argv, args, dirExists, printed, model, bf, sa, call>>

\* --------------------------------------------------- sensitivity_analysis
\* model = model.cpu()
SA_Cpu ==
    /\ pc = "sa_cpu"
    /\ trace' = Append(trace, "cpu")
    /\ model' = [model EXCEPT !.device = "cpu"]
    /\ pc' = "sa_eval"
    /\ UNCHANGED <<entry, exc, argv, args, dirExists, files, printed, bf, sa, call>>

\* model.eval()
SA_Eval ==
    /\ pc = "sa_eval"
    /\ trace' = Append(trace, "eval")
    /\ model' = [model EXCEPT !.training = FALSE]
    /\ pc' = "sa_forward"
    /\ UNCHANGED <<entry, exc, argv, args, dirExists, files, printed, bf, sa, call>>

\* output = model(X); output_class = output.max(1)[1].data.numpy()[0]
\* the scores are the model's
SA_Forward ==
    /\ pc = "sa_forward"
    /\ trace' = Append(trace, "forward")
    /\ \E nPos \in 1..MaxPos :
         \E output \in [Class -> [1..nPos -> Score]] :
           sa' = [sa EXCEPT !.nPos = nPos, !.output = output,
                            !.output_class = ArgMax(output, nPos)]
    /\ pc' = "sa_zero_grad"
    /\ UNCHANGED <<entry, exc, argv, args, dirExists, files, printed, model, bf, call>>

\* the mutant of SA_ZeroGrad: the gradients are not zeroed
SA_ZeroGradForgotten ==
    /\ pc = "sa_zero_grad"
    /\ pc' = "sa_one_hot"
    /\ UNCHANGED <<entry, exc, trace, argv, args, dirExists, files, printed, model, bf, sa, call>>

\* model.zero_grad()
SA_ZeroGrad ==
    /\ pc = "sa_zero_grad"
    /\ trace' = Append(trace, "zero_grad")
    /\ model' = [model EXCEPT !.grads = "zero"]
    /\ pc' = "sa_one_hot"
    /\ UNCHANGED <<entry, exc, argv, args, dirExists, files, printed, bf, sa, call>>

\* one_hot_output = torch.zeros(output.size()), then one_hot_output[0, index] = 1
\* with index the array output_class (target_class is None) or target_class
SA_OneHot ==
    /\ pc = "sa_one_hot"
    /\ trace' = Append(trace, "one_hot")
    /\ sa' = [sa EXCEPT !.one_hot_output =
                OneHot(sa.nPos, IF sa.target_given THEN {sa.target_class}
                                ELSE { sa.output_class[p] : p \in 1..sa.nPos })]
    /\ pc' = "sa_backward"
    /\ UNCHANGED <<entry, exc, argv, args, dirExists, files, printed, model, bf, call>>

\* output.backward(gradient=one_hot_output): autograd fills X.grad and adds to
\* the gradients of the model's parameters
SA_Backward ==
    /\ pc = "sa_backward"
    /\ trace' = Append(trace, "backward")
    /\ \E g \in [Pixel -> GradValue] : sa' = [sa EXCEPT !.grad = g]
    /\ model' = [model EXCEPT !.grads = IF model.grads = "zero" THEN "fresh" ELSE "accumulated"]
    /\ pc' = "sa_relevance_map"
    /\ UNCHANGED <<entry, exc, argv, args, dirExists, files, printed, bf, call>>

\* relevance_map = X.grad.data[0].numpy()
SA_RelevanceMap ==
    /\ pc = "sa_relevance_map"
    /\ trace' = Append(trace, "grad")
    /\ sa' = [sa EXCEPT !.relevance_map = sa.grad]
    /\ pc' = "sa_postprocess"
    /\ UNCHANGED <<entry, exc, argv, args, dirExists, files, printed, model, bf, call>>

\* the if / elif chain on postprocess: return the map, or raise ValueError()
SA_PostProcess ==
    /\ pc = "sa_postprocess"
    /\ trace' = Append(trace, "postprocess")
    /\ LET r == PostProcess(sa.relevance_map, sa.postprocess)
       IN IF r.raised
          THEN /\ sa' = sa
               /\ Raise("ValueError")
          ELSE /\ sa' = [sa EXCEPT !.result = r.value, !.returned = TRUE]
               /\ pc' = IF entry = "main" THEN "ps_savefig" ELSE "done"
               /\ exc' = exc
    /\ UNCHANGED <<entry, argv, args, dirExists, files, printed, model, bf, call>>


\* ---------------------------------------------------------- block_filters
\* --image_size, the default
ImageSize == 64

\* the sizes zipped with the down outputs and with the up outputs
DownSizes == <<64, 128, 256>>
UpSizes == <<16, 32>>

\* a (name, module) pair of named_modules()
Child(name) == <<name, name>>

\* the named modules of one path: the block 'path.i' and its submodule, for i < n
RECURSIVE PathModules(_, _, _)
PathModules(path, sub, n) ==
    IF n <= 0 THEN <<>>
    ELSE PathModules(path, sub, n - 1)
         \o <<Child(Format(path, n - 1)), Child(Format(path, n - 1) \o <<".", sub>>)>>

\* model.named_modules() of a U-Net with nDown down blocks and nUp up blocks:
\* the root, then every submodule by its dotted path, parents first
NamedModules(nDown, nUp) ==
    <<Child(<<>>), Child(<<"down_path">>)>> \o PathModules("down_path", "block", nDown)
    \o <<Child(<<"up_path">>)>> \o PathModules("up_path", "up", nUp)
    \o <<Child(<<"last">>)>>

\* all_children(mod): the list of mod.named_modules()
all_children(named_modules) == named_modules

\* dep_list: down_list[0](input_img), then down_list[i](dep_list[i - 1])
RECURSIVE DownChain(_, _, _)
DownChain(down_list, input_img, n) ==
    IF n = 1 THEN <<Apply(down_list[1], <<input_img>>)>>
    ELSE LET prev == DownChain(down_list, input_img, n - 1)
         IN Append(prev, Apply(down_list[n], <<prev[n - 1]>>))

\* the mutant of Reversed: the list is not reversed
ReversedForgotten(lst) == lst

\* lst[::-1]
Reversed(lst) == [ i \in 1..Len(lst) |-> lst[Len(lst) + 1 - i] ]

\* len(list(zip(range(n), sizes)))
ZipLen(n, sizes) == IF n < Len(sizes) THEN n ELSE Len(sizes)

\* plot_block(args, block, img_size, name): one figure saved as
\* '<name>_block_filter_<img_size>.png'
plot_block(block, img_size, name) ==
    /\ bf' = [bf EXCEPT !.plots = Append(@, [name |-> name, block |-> block, img_size |-> img_size]),
                        !.j = @ + 1]
    /\ SaveFig(BlockFilterPng(name, img_size))

\* module_list = all_children(model): the model turns out to have some number
\* of down and up blocks
BF_AllChildren ==
    /\ pc = "bf_all_children"
    /\ trace' = Append(trace, "all_children")
    /\ \E nDown \in 0..MaxBlocks, nUp \in 0..MaxBlocks :
         bf' = [NoBf EXCEPT !.module_list = all_children(NamedModules(nDown, nUp))]
    /\ pc' = "bf_load_image"
    /\ UNCHANGED <<entry, exc, argv, args, dirExists, files, printed, model, sa, call>>

\* img_tensor, _ = load_image(img_path, args); input_img = img_tensor.unsqueeze(0).to(device)
BF_LoadImage ==
    /\ pc = "bf_load_image"
    /\ trace' = Append(trace, "load_image")
    /\ \E ok \in BOOLEAN :
         IF ok THEN pc' = "bf_get_block_list" /\ exc' = exc
         ELSE Raise("FileNotFoundError")
    /\ UNCHANGED <<entry, argv, args, dirExists, files, printed, model, bf, sa, call>>

\* down_list, up_list = get_block_list(module_list, args)
BF_GetBlockList ==
    /\ pc = "bf_get_block_list"
    /\ trace' = Append(trace, "get_block_list")
    /\ LET r == get_block_list(bf.module_list, args.depth)
       IN IF r.raised
          THEN /\ bf' = bf
               /\ Raise("IndexError")
          ELSE /\ bf' = [bf EXCEPT !.down_list = r.down, !.up_list = r.up]
               /\ pc' = "bf_down"
               /\ exc' = exc
    /\ UNCHANGED <<entry, argv, args, dirExists, files, printed, model, sa, call>>

\* dep_list = [down_list[0](input_img)] and the loop that chains the other
\* down blocks; down_list[0] raises IndexError on an empty list
BF_Down ==
    /\ pc = "bf_down"
    /\ trace' = Append(trace, "down")
    /\ IF bf.down_list = <<>>
       THEN /\ bf' = bf
            /\ Raise("IndexError")
       ELSE /\ bf' = [bf EXCEPT !.dep_list = DownChain(bf.down_list, Input(ImageSize), Len(bf.down_list)),
                               !.j = 0]
            /\ pc' = "bf_plot_down"
            /\ exc' = exc
    /\ UNCHANGED <<entry, argv, args, dirExists, files, printed, model, sa, call>>

\* for j, m in zip(range(len(dep_list)), [64, 128, 256]): plot_block(args, dep_list[j], m, name='down')
\* one iteration, or the end of the loop
BF_PlotDown ==
    /\ pc = "bf_plot_down"
    /\ IF bf.j < ZipLen(Len(bf.dep_list), DownSizes)
       THEN /\ trace' = Append(trace, "plot_down")
            /\ plot_block(bf.dep_list[bf.j + 1], DownSizes[bf.j + 1], "down")
            /\ pc' = IF dirExists THEN pc ELSE "raised"
       ELSE /\ trace' = trace
            /\ bf' = bf
            /\ pc' = "bf_pooled"
            /\ UNCHANGED <<files, exc>>
    /\ UNCHANGED <<entry, argv, args, dirExists, printed, model, sa, call>>

\* pooled: F.avg_pool2d(dep_list[i], 2) for every i
BF_Pooled ==
    /\ pc = "bf_pooled"
    /\ trace' = Append(trace, "pooled")
    /\ bf' = [bf EXCEPT !.pooled = [ i \in 1..Len(bf.dep_list) |-> avg_pool2d(bf.dep_list[i]) ]]
    /\ pc' = "bf_up"
    /\ UNCHANGED <<entry, exc, argv, args, dirExists, files, printed, model, sa, call>>

\* for i in range(len(up_list)): pools = do_pooling(args.depth, dep_list[i + 1]);
\* up_layer = reversed_uplist[i](pools, F.avg_pool2d(dep_list[i], 2))
\* one iteration, or the end of the loop
BF_Up ==
    /\ pc = "bf_up"
    /\ LET i == Len(bf.up_block)
           pools == do_pooling(args.depth, bf.dep_list[i + 2])
       IN IF i < Len(bf.up_list)
          THEN /\ trace' = Append(trace, "up")
               /\ IF pools = RecursionError
                  THEN /\ bf' = [bf EXCEPT !.pool_calls = Append(@, args.depth)]
                       /\ Raise("RecursionError")
                  ELSE /\ bf' = [bf EXCEPT
                            !.pool_calls = Append(@, args.depth),
                            !.up_block = Append(@, Apply(Reversed(bf.up_list)[i + 1],
                                                   <<pools, avg_pool2d(bf.dep_list[i + 1])>>))]
                       /\ pc' = pc
                       /\ exc' = exc
          ELSE /\ trace' = trace
               /\ bf' = [bf EXCEPT !.j = 0]
               /\ pc' = "bf_plot_up"
               /\ exc' = exc
    /\ UNCHANGED <<entry, argv, args, dirExists, files, printed, model, sa, call>>

\* for j, m in zip(range(len(up_list)), [16, 32]): plot_block(args, up_block[j], m, name='up')
\* one iteration, or the end of the loop and the return to main
BF_PlotUp ==
    /\ pc = "bf_plot_up"
    /\ IF bf.j < ZipLen(Len(bf.up_list), UpSizes)
       THEN /\ trace' = Append(trace, "plot_up")
            /\ plot_block(bf.up_block[bf.j + 1], UpSizes[bf.j + 1], "up")
            /\ pc' = IF dirExists THEN pc ELSE "raised"
       ELSE /\ trace' = trace
            /\ bf' = bf
            /\ pc' = "print"
            /\ UNCHANGED <<files, exc>>
    /\ UNCHANGED <<entry, argv, args, dirExists, printed, model, sa, call>>


\* ---------------------------------------- get_block_list called on its own
\* the names a child list is drawn from: blocks, their submodules, and names
\* that contain a block's name
NamePool ==
    { Format("down_path", 0), Format("down_path", 1), Format("up_path", 0),
      Format("down_path", 1) \o <<".", "block">>, Format("down_path", 10),
      Format("up_path", 0) \o <<".", "up">>, <<"down_path">> }

\* children.append(child): the next named module, whose name is a new one
BL_Append ==
    /\ pc = "all_children"
    /\ Len(call.child_list) < MaxChildren
    /\ \E name \in NamePool :
         /\ \A k \in 1..Len(call.child_list) : call.child_list[k][1] # name
         /\ call' = [call EXCEPT !.child_list = Append(@, Child(name))]
    /\ UNCHANGED <<entry, pc, exc, trace, argv, args, dirExists, files, printed, model, bf, sa>>

\* get_block_list(child_list, args) on the list built
BL_Call ==
    /\ pc = "all_children"
    /\ trace' = Append(trace, "get_block_list")
    /\ LET r == get_block_list(call.child_list, call.depth)
       IN /\ call' = [call EXCEPT !.raised = r.raised, !.down = r.down, !.up = r.up]
          /\ pc' = IF r.raised THEN "raised" ELSE "done"
          /\ exc' = IF r.raised THEN "IndexError" ELSE exc
    /\ UNCHANGED <<entry, argv, args, dirExists, files, printed, model, bf, sa>>

\* -------------------------------------------- do_pooling called on its own
DP_Call ==
    /\ pc = "do_pooling"
    /\ trace' = Append(trace, "do_pooling")
    /\ LET r == do_pooling(call.dep, call.d)
       IN /\ call' = [call EXCEPT !.out = r]
          /\ pc' = IF r = RecursionError THEN "raised" ELSE "done"
          /\ exc' = IF r = RecursionError THEN "RecursionError" ELSE exc
    /\ UNCHANGED <<entry, argv, args, dirExists, files, printed, model, bf, sa>>

\* ------------------------------------------------------- specifications
Idle == /\ exc = "none" /\ trace = <<>> /\ args = NoArgs /\ files = <<>>
        /\ printed = FALSE /\ bf = NoBf

\* python interpret.py <argv>: main is about to parse the command line
InitMain ==
    /\ entry = "main" /\ pc = "parse_args" /\ Idle
    /\ argv \in [depth : MinDepth..MaxDepth,
                 plot_interpret : {"sensitivity", "block_filters", "saliency"}]
    /\ dirExists \in BOOLEAN
    /\ model = NoModel /\ sa = NoSa /\ call = NoCall

\* do_pooling(dep, d) is about to run on an input tensor
InitPooling ==
    /\ entry = "do_pooling" /\ pc = "do_pooling" /\ Idle
    /\ argv = [depth |-> 0, plot_interpret |-> "none"]
    /\ dirExists = FALSE
    /\ model = NoModel /\ sa = NoSa
    /\ \E dep \in MinDepth..(MaxDepth + 1), n \in 1..MaxSize :
         call = [NoCall EXCEPT !.dep = dep, !.d = Input(n)]

\* sensitivity_analysis(model, image_tensor, target_class, postprocess) is
\* about to run on a loaded model
InitSA ==
    /\ entry = "sensitivity_analysis" /\ pc = "sa_cpu" /\ Idle
    /\ argv = [depth |-> 0, plot_interpret |-> "none"]
    /\ dirExists = FALSE
    /\ \E dev \in {"cuda", "cpu"}, tr \in BOOLEAN :
         model = [loaded |-> TRUE, device |-> dev, training |-> tr, grads |-> "stale"]
    /\ \E given \in BOOLEAN, target \in Class, post \in PostValue :
         /\ (~given => target = 0)
         /\ sa = [NoSa EXCEPT !.target_given = given, !.target_class = target,
                              !.postprocess = post]
    /\ call = NoCall

\* all_children is about to list the named modules handed to get_block_list
InitBL ==
    /\ entry = "get_block_list" /\ pc = "all_children" /\ Idle
    /\ argv = [depth |-> 0, plot_interpret |-> "none"]
    /\ dirExists = FALSE
    /\ model = NoModel /\ sa = NoSa
    /\ \E depth \in MinDepth..MaxDepth : call = [NoCall EXCEPT !.depth = depth]

NextSA ==
    \/ SA_Cpu \/ SA_Eval \/ SA_Forward \/ SA_ZeroGrad \/ SA_OneHot
    \/ SA_Backward \/ SA_RelevanceMap \/ SA_PostProcess

NextBL == BL_Append \/ BL_Call

Init == InitMain \/ InitPooling

Next ==
    \/ ParseArgs \/ MakeDirs \/ LoadModel \/ IfSensitivity \/ IfBlockFilters
    \/ PrintComplete
    \/ PS_LoadImage \/ PS_SaveFig
    \/ NextSA
    \/ BF_AllChildren \/ BF_LoadImage \/ BF_GetBlockList \/ BF_Down \/ BF_PlotDown
    \/ BF_Pooled \/ BF_Up \/ BF_PlotUp
    \/ DP_Call

\* a run of the script, or a call of do_pooling
Spec == Init /\ [][Next]_vars

\* a call of sensitivity_analysis
SpecSA == InitSA /\ [][NextSA]_vars

\* a call of get_block_list
SpecBL == InitBL /\ [][NextBL]_vars


\* ----------------------------------------------------------------- claims
InTrace(step) == \E k \in 1..Len(trace) : trace[k] = step

IsPrefix(a, b) == Len(a) <= Len(b) /\ \A k \in 1..Len(a) : a[k] = b[k]

NoRepeat(seq) == \A i, k \in 1..Len(seq) : i # k => seq[i] # seq[k]

\* the statements of main itself among the statements run
MainTrace ==
    SelectSeq(trace, LAMBDA e : e \in {"parse_args", "makedirs", "load_model",
                                       "plot_sensitivity", "block_filters", "print"})

\* the routine main called has returned
RoutineReturned ==
    IF args.plot_interpret = "sensitivity"
    THEN sa.returned /\ files = <<SensitivityPng>>
    ELSE /\ bf.dep_list # <<>>
         /\ Len(bf.up_block) = Len(bf.up_list)
         /\ Len(bf.plots) = ZipLen(Len(bf.dep_list), DownSizes) + ZipLen(Len(bf.up_list), UpSizes)

\* C1: a run of main whose arguments are accepted runs parse_args, makedirs,
\* load_model, the one routine its plot_interpret names and the print, in this
\* order; the directory exists before the model is loaded and before any file
\* is written; the print happens only after the routine has returned; a run
\* that ends normally has done all five.
C1_MainOrder ==
    (entry = "main" /\ args # NoArgs) =>
        /\ IsPrefix(MainTrace, <<"parse_args", "makedirs", "load_model",
                                 IF args.plot_interpret = "sensitivity"
                                 THEN "plot_sensitivity" ELSE "block_filters",
                                 "print">>)
        /\ (InTrace("load_model") => dirExists)
        /\ (files # <<>> => dirExists /\ InTrace("makedirs"))
        /\ ((InTrace("plot_sensitivity") \/ InTrace("block_filters")) => model.loaded)
        /\ (printed => RoutineReturned)
        /\ (pc = "done" => printed /\ Len(MainTrace) = 5)

C1_Witness ==
    /\ entry = "main" /\ pc = "done" /\ printed
    /\ args.plot_interpret = "block_filters" /\ Len(files) = 5

\* C2: in sensitivity mode a run writes nothing but sensitivity.png, and a run
\* that ends normally has written exactly that one file; in block_filters mode
\* every file written is <name>_block_filter_<n>.png with name down or up; no
\* file name is written twice.
C2_FilesByMode ==
    entry = "main" =>
        /\ (args.plot_interpret = "sensitivity" =>
               /\ files \in {<<>>, <<SensitivityPng>>}
               /\ (pc = "done" => files = <<SensitivityPng>>))
        /\ (args.plot_interpret = "block_filters" =>
               \A k \in 1..Len(files) :
                   files[k].kind = "block_filter" /\ files[k].name \in {"down", "up"})
        /\ (args.plot_interpret = "unparsed" => files = <<>>)
        /\ NoRepeat(files)

C2_Witness ==
    /\ entry = "main" /\ pc = "done" /\ args.plot_interpret = "block_filters"
    /\ Len(files) = 5 /\ files[4] = BlockFilterPng("up", 16)

\* the number of plot_block calls made on the tensor t under the name given
PlotsOf(t, name) ==
    Cardinality({ k \in 1..Len(bf.plots) : bf.plots[k].block = t /\ bf.plots[k].name = name })

\* C3: when block_filters has returned, plot_block has been called exactly
\* once on each of the depth down outputs and exactly once on each of the
\* depth - 1 up outputs, 2 * depth - 1 calls in all.
C3_OnePlotPerBlock ==
    (entry = "main" /\ args.plot_interpret = "block_filters" /\ pc \in {"print", "done"}) =>
        /\ Len(bf.dep_list) = args.depth
        /\ Len(bf.up_block) = args.depth - 1
        /\ \A i \in 1..Len(bf.dep_list) : PlotsOf(bf.dep_list[i], "down") = 1
        /\ \A i \in 1..Len(bf.up_block) : PlotsOf(bf.up_block[i], "up") = 1
        /\ Len(bf.plots) = 2 * args.depth - 1

\* C4: the seed of the backward pass is a one-hot encoding: at every output
\* position it is 1 at the target class (or, when target_class is None, at
\* that position's predicted class) and 0 at every other class.
C4_OneHotSeed ==
    (entry = "sensitivity_analysis" /\ InTrace("one_hot")) =>
        \A p \in 1..sa.nPos : \A c \in Class :
            sa.one_hot_output[c][p] =
                IF c = (IF sa.target_given THEN sa.target_class ELSE sa.output_class[p])
                THEN 1 ELSE 0

\* C5: a call that reached the postprocess chain ends in ValueError, with no
\* map returned, exactly when postprocess is none of 'abs', 'square' and None;
\* 'abs' returns the absolute values, 'square' the squares and None the input
\* gradient itself.
C5_PostProcess ==
    (entry = "sensitivity_analysis" /\ InTrace("postprocess")) =>
        /\ (sa.postprocess \notin {"abs", "square", "None"}) <=> (exc = "ValueError")
        /\ (exc = "ValueError" => pc = "raised" /\ ~sa.returned /\ sa.result = <<>>)
        /\ (exc # "ValueError" => exc = "none" /\ pc = "done" /\ sa.returned)
        /\ (sa.postprocess = "abs" =>
               \A x \in Pixel : /\ sa.result[x] >= 0
                                /\ sa.result[x] \in {sa.grad[x], 0 - sa.grad[x]})
        /\ (sa.postprocess = "square" =>
               \A x \in Pixel : sa.result[x] = sa.grad[x] * sa.grad[x])
        /\ (sa.postprocess = "None" => sa.result = sa.grad)

C5_Witness ==
    /\ entry = "sensitivity_analysis" /\ pc = "raised" /\ exc = "ValueError"
    /\ sa.postprocess = "ABS" /\ sa.grad[1] = 0 - MaxGrad

\* the number of blocks 'key.0', 'key.1', ... the listed modules hold
Blocks(key) ==
    Cardinality({ y \in 0..(MaxBlocks + 1) :
        \E k \in 1..Len(bf.module_list) : bf.module_list[k][1] = Format(key, y) })

WrongDepth ==
    \/ args.depth > Blocks("down_path")
    \/ args.depth - 1 > Blocks("up_path")
    \/ args.depth <= 0

\* C6: in a block_filters run whose --depth does not fit the model (more than
\* the model's down blocks, depth - 1 more than its up blocks, or depth <= 0)
\* get_block_list or block_filters raises IndexError: once get_block_list has
\* run and, for depth <= 0, the first down block was asked for, the run has
\* ended in the exception; no file is ever written, nothing is printed, no
\* statement runs twice, and the run never ends normally.
C6_WrongDepthRaises ==
    (entry = "main" /\ args.plot_interpret = "block_filters"
        /\ bf.module_list # <<>> /\ WrongDepth) =>
        /\ files = <<>> /\ bf.plots = <<>>
        /\ ~printed
        /\ pc \notin {"print", "done", "bf_plot_down", "bf_pooled", "bf_up", "bf_plot_up"}
        /\ NoRepeat(trace)
        /\ ((args.depth > 0 /\ InTrace("get_block_list")) =>
               pc = "raised" /\ exc = "IndexError")
        /\ (InTrace("down") => pc = "raised" /\ exc = "IndexError")

C6_Witness ==
    /\ entry = "main" /\ pc = "raised" /\ exc = "IndexError"
    /\ InTrace("get_block_list") /\ ~InTrace("down")
    /\ args.depth = 3 /\ Blocks("down_path") = 3 /\ Blocks("up_path") = 1

\* the module listed in child_list under exactly the name given
Named(child_list, name, mod) ==
    \E k \in 1..Len(child_list) : child_list[k] = <<name, mod>>

\* C7: for depth >= 1 and a child list that holds the names down_path.0 ..
\* down_path.(depth-1) and up_path.0 .. up_path.(depth-2), in whatever order
\* and among whatever other names, get_block_list returns without raising a
\* down list of length depth whose y-th element is the module named exactly
\* down_path.y and an up list of length depth - 1 whose y-th element is the
\* module named exactly up_path.y.
C7_BlockListExact ==
    (entry = "get_block_list" /\ pc \in {"done", "raised"} /\ call.depth >= 1
        /\ (\A y \in 0..(call.depth - 1) :
                \E k \in 1..Len(call.child_list) : call.child_list[k][1] = Format("down_path", y))
        /\ (\A y \in 0..(call.depth - 2) :
                \E k \in 1..Len(call.child_list) : call.child_list[k][1] = Format("up_path", y))) =>
        /\ pc = "done" /\ ~call.raised
        /\ Len(call.down) = call.depth
        /\ Len(call.up) = call.depth - 1
        /\ \A y \in 0..(call.depth - 1) :
               Named(call.child_list, Format("down_path", y), call.down[y + 1])
        /\ \A y \in 0..(call.depth - 2) :
               Named(call.child_list, Format("up_path", y), call.up[y + 1])

C7_Witness ==
    /\ entry = "get_block_list" /\ pc = "done" /\ call.depth = 2
    /\ Len(call.child_list) = 5
    /\ call.child_list[1][1] = Format("down_path", 10)
    /\ call.child_list[2][1] = Format("down_path", 1) \o <<".", "block">>
    /\ call.child_list[3][1] = Format("down_path", 1)
    /\ call.down = <<Format("down_path", 0), Format("down_path", 1)>>

\* t average-pooled by 2, k times
RECURSIVE PoolN(_, _)
PoolN(k, t) == IF k <= 0 THEN t ELSE avg_pool2d(PoolN(k - 1, t))

\* C8: in block_filters down output i is down block down_path.i applied to
\* down output i - 1 (the input image for i = 0), and up output i is up block
\* up_path.(depth-2-i) applied to the pair (down output i + 1 pooled depth - 1
\* times, down output i pooled once); when the up loop has ended there are
\* depth down outputs and depth - 1 up outputs.
C8_Chaining ==
    (entry = "main" /\ args.plot_interpret = "block_filters") =>
        /\ \A i \in 1..Len(bf.dep_list) :
               bf.dep_list[i] = Apply(Format("down_path", i - 1),
                                      <<IF i = 1 THEN Input(ImageSize) ELSE bf.dep_list[i - 1]>>)
        /\ \A i \in 0..(Len(bf.up_block) - 1) :
               bf.up_block[i + 1] = Apply(Format("up_path", args.depth - 2 - i),
                                          <<PoolN(args.depth - 1, bf.dep_list[i + 2]),
                                            PoolN(1, bf.dep_list[i + 1])>>)
        /\ (pc \in {"bf_plot_up", "print", "done"} =>
               Len(bf.dep_list) = args.depth /\ Len(bf.up_block) = args.depth - 1)

C8_Witness ==
    /\ entry = "main" /\ pc = "done" /\ args.depth = 3
    /\ Len(bf.up_block) = 2
    /\ bf.up_block[1].of = Format("up_path", 1)
    /\ bf.up_block[2].of = Format("up_path", 0)

SA_Statements ==
    <<"cpu", "eval", "forward", "zero_grad", "one_hot", "backward", "grad", "postprocess">>

\* C9: a call of sensitivity_analysis runs cpu, eval, the forward pass,
\* zero_grad, the seed, the backward pass, the read of the input gradient and
\* the postprocess chain in this order; the gradients are zeroed after the
\* forward pass and are still zero when the backward pass starts; a call that
\* ends in ValueError has left the model on cpu, in eval mode, with the
\* backward pass run.
C9_Order ==
    entry = "sensitivity_analysis" =>
        /\ IsPrefix(trace, SA_Statements)
        /\ (InTrace("zero_grad") => sa.output # <<>>)
        /\ (pc = "sa_backward" => model.grads = "zero")
        /\ (InTrace("backward") => model.grads = "fresh" /\ sa.grad # <<>>)
        /\ (pc \in {"done", "raised"} => trace = SA_Statements)
        /\ (exc = "ValueError" =>
               /\ model.device = "cpu" /\ ~model.training
               /\ InTrace("backward") /\ sa.relevance_map = sa.grad)
        /\ (exc # "none" => exc = "ValueError")

C9_Witness ==
    /\ entry = "sensitivity_analysis" /\ pc = "raised" /\ exc = "ValueError"
    /\ model.device = "cpu" /\ model.grads = "fresh" /\ sa.postprocess = "sqrt"

RECURSIVE Pow2(_)
Pow2(k) == IF k <= 0 THEN 1 ELSE 2 * Pow2(k - 1)

=============================================================================
